---- MODULE Spec2Model ----
\* The software_factory task-orchestration engine: the shared ledger
\* (state.py), the dispatcher's routing (executors/dispatcher.py), the planner,
\* implementer and verifier handlers (executors/*.py) and the message edges
\* between them (workflow.py).
\*
\* Conventions.  A Python str is a sequence of atoms (one-character strings, or
\* one atom standing for a fixed literal of the source).  Optional[str] is None
\* (the empty tuple) or Some(s) (a one-element tuple holding the str).  Python
\* list indices are 0-based: tasks[i] of the source is tasks[i + 1] here.
EXTENDS Integers, Sequences, FiniteSets

VARIABLES
    ledger,     \* the shared state stored under PROJECT_STATE_KEY
    inflight,   \* messages sent along an edge and not yet handled: [to, msg]
    events,     \* every message an executor has sent: [from, msg]
    outputs,    \* every value passed to ctx.yield_output
    calls,      \* the agent calls so far: how many verdicts were not pass, and
                \* the text the latest implementer call returned
    failure,    \* "none", or the exception that ended the run
    last        \* the latest handler invocation: who ran, on which message and
                \* stored ledger, what its agent returned, what it sent and yielded

vars == <<ledger, inflight, events, outputs, calls, failure, last>>

\* ---------------------------------------------------------------- bounds

MaxTasks == 2
MaxRejects == 2

\* ------------------------------------------------------------ signals.py

PLAN_CREATED == "plan_created"
DISPATCH_TASK == "dispatch_task"
IMPLEMENTATION_DONE == "implementation_done"
REQUEST_VERIFICATION == "request_verification"
VERIFICATION_COMPLETE == "verification_complete"
WORKFLOW_COMPLETE == "workflow_complete"
ADVANCE_TASK == "advance_task"

\* ------------------------------------------------------- Python helpers

None == << >>
Some(s) == <<s>>

\* bool(x) of an Optional[str]: None and "" are falsy.
Truthy(opt) == opt # None /\ opt[1] # << >>

\* message.get(key): the value, or the atom "None" when the key is missing.
Get(message, key) == IF key \in DOMAIN message THEN message[key] ELSE "None"

\* dict.get(key, default)
GetOr(dict, key, default) == IF key \in DOMAIN dict THEN dict[key] ELSE default

RECURSIVE Join(_, _)
\* sep.join(strs)
Join(sep, strs) ==
    IF strs = << >> THEN << >>
    ELSE IF Len(strs) = 1 THEN strs[1]
    ELSE strs[1] \o sep \o Join(sep, Tail(strs))

RECURSIVE SelectOutputs_set(_)
\* A variant that keeps every output that is not None, the empty ones too.
SelectOutputs_set(tasks) ==
    IF tasks = << >> THEN << >>
    ELSE IF tasks[1].output # None
         THEN <<tasks[1].output[1]>> \o SelectOutputs_set(Tail(tasks))
         ELSE SelectOutputs_set(Tail(tasks))

RECURSIVE SelectOutputs(_)
\* [task.output for task in tasks if task.output]
SelectOutputs(tasks) ==
    IF tasks = << >> THEN << >>
    ELSE IF Truthy(tasks[1].output)
         THEN <<tasks[1].output[1]>> \o SelectOutputs(Tail(tasks))
         ELSE SelectOutputs(Tail(tasks))

RECURSIVE LStrip(_)
LStrip(s) == IF s # << >> /\ s[1] = " " THEN LStrip(Tail(s)) ELSE s

RECURSIVE RStrip(_)
RStrip(s) ==
    IF s # << >> /\ s[Len(s)] = " " THEN RStrip(SubSeq(s, 1, Len(s) - 1)) ELSE s

\* str.strip()
Strip(s) == RStrip(LStrip(s))

\* ------------------------------------------------------------- state.py

TaskStatus == {"pending", "in_progress", "needs_review", "completed", "blocked"}
Roles == {"coder", "researcher"}

\* Task(**payload): the planner's fields, and the defaults of the others.
Task(payload) ==
    [title |-> payload.title,
     description |-> payload.description,
     assignee |-> payload.assignee,
     status |-> "pending",
     output |-> None,
     feedback |-> None]

\* ProjectState()
ProjectState ==
    [original_request |-> << >>,
     tasks |-> << >>,
     current_task_index |-> 0,
     final_artifact |-> None]

\* ProjectState.current_task(): None, or Some(task).
current_task(state) ==
    IF 0 <= state.current_task_index /\ state.current_task_index < Len(state.tasks)
    THEN Some(state.tasks[state.current_task_index + 1])
    ELSE None

\* ProjectState(**raw_state): pydantic accepts the snapshot only when every
\* task's status and assignee are values of their Literal types.
Valid(raw_state) ==
    \A k \in DOMAIN raw_state.tasks :
        /\ raw_state.tasks[k].status \in TaskStatus
        /\ raw_state.tasks[k].assignee \in Roles

\* get_project_state(ctx): a private copy of the stored snapshot (the callers
\* below raise its ValidationError when the snapshot is not Valid).
get_project_state(ctx) == ctx.shared

\* update_project_state(ctx, state): the stored snapshot is replaced.
update_project_state(ctx, state) == [ctx EXCEPT !.shared = state]

\* ----------------------------------------------- the WorkflowContext

\* What one handler invocation sees and produces: the shared state, the
\* messages it sends and the outputs it yields.
Context(shared) == [shared |-> shared, sent |-> << >>, out |-> << >>]

send_message(ctx, message) == [ctx EXCEPT !.sent = Append(@, message)]

yield_output(ctx, output) == [ctx EXCEPT !.out = Append(@, output)]

\* ---------------------------------------------- executors/dispatcher.py

NoTasksText == <<"No tasks were planned; workflow exiting.">>
OutOfRangeText == <<"State pointer is out of range; stopping execution.">>
WorkflowCompletedText == <<"Workflow completed.">>
UnknownStatusText(status) ==
    <<"Unknown task status '", status, "'. Manual intervention required.">>
BlankLine == <<"\n", "\n">>

\* A variant that marks the task in its private copy and never stores it.
_dispatch_task_unsaved(ctx, state) ==
    IF current_task(state) = None THEN ctx
    ELSE LET i == state.current_task_index + 1
         IN  send_message(
                 ctx,
                 [signal |-> DISPATCH_TASK,
                  task_index |-> state.current_task_index,
                  assignee |-> state.tasks[i].assignee])

\* A variant that marks tasks[current_task_index - 1], the task before the
\* cursor (the last one when the cursor is 0), and dispatches the current one.
_dispatch_task_previous(ctx, state) ==
    IF current_task(state) = None THEN ctx
    ELSE LET i == state.current_task_index + 1
             j == IF state.current_task_index = 0 THEN Len(state.tasks)
                  ELSE state.current_task_index
             marked == [state EXCEPT !.tasks[j].status = "in_progress"]
         IN  send_message(
                 update_project_state(ctx, marked),
                 [signal |-> DISPATCH_TASK,
                  task_index |-> state.current_task_index,
                  assignee |-> state.tasks[i].assignee])

\* DispatcherExecutor._dispatch_task
_dispatch_task(ctx, state) ==
    IF current_task(state) = None THEN ctx
    ELSE LET i == state.current_task_index + 1
             marked == [state EXCEPT !.tasks[i].status = "in_progress"]
         IN  send_message(
                 update_project_state(ctx, marked),
                 [signal |-> DISPATCH_TASK,
                  task_index |-> state.current_task_index,
                  assignee |-> state.tasks[i].assignee])

\* _finalize without the closing send_message.
_finalize_unsignalled(state, ctx) ==
    LET outs == SelectOutputs(state.tasks)
        artifact == IF outs # << >> THEN Join(BlankLine, outs)
                    ELSE WorkflowCompletedText
        final == IF ~Truthy(state.final_artifact)
                 THEN [state EXCEPT !.final_artifact = Some(artifact)]
                 ELSE state
        saved == IF ~Truthy(state.final_artifact)
                 THEN update_project_state(ctx, final)
                 ELSE ctx
        shown == IF Truthy(final.final_artifact) THEN final.final_artifact[1]
                 ELSE WorkflowCompletedText
    IN  yield_output(saved, shown)

\* DispatcherExecutor._finalize
_finalize(state, ctx) ==
    LET outs == SelectOutputs(state.tasks)
        artifact == IF outs # << >> THEN Join(BlankLine, outs)
                    ELSE WorkflowCompletedText
        final == IF ~Truthy(state.final_artifact)
                 THEN [state EXCEPT !.final_artifact = Some(artifact)]
                 ELSE state
        saved == IF ~Truthy(state.final_artifact)
                 THEN update_project_state(ctx, final)
                 ELSE ctx
        shown == IF Truthy(final.final_artifact) THEN final.final_artifact[1]
                 ELSE WorkflowCompletedText
    IN  send_message(yield_output(saved, shown), [signal |-> WORKFLOW_COMPLETE])

RECURSIVE _route(_, _)
\* A variant without the check for an empty task list.
_route_unguarded(state, ctx) ==
    IF state.current_task_index >= Len(state.tasks)
    THEN _finalize(state, ctx)
    ELSE IF current_task(state) = None
    THEN send_message(yield_output(ctx, OutOfRangeText),
                      [signal |-> WORKFLOW_COMPLETE])
    ELSE LET task == current_task(state)[1]
         IN  CASE task.status \in {"pending", "blocked"} ->
                    _dispatch_task(ctx, state)
               [] task.status = "in_progress" -> ctx
               [] task.status = "needs_review" ->
                    send_message(ctx, [signal |-> REQUEST_VERIFICATION,
                                       task_index |-> state.current_task_index])
               [] task.status = "completed" ->
                    LET advanced == [state EXCEPT !.current_task_index = @ + 1]
                    IN  _route(advanced, update_project_state(ctx, advanced))
               [] OTHER -> yield_output(ctx, UnknownStatusText(task.status))

\* A variant that marks the task under review as in_progress when it asks
\* for the review.
_route_reviewing(state, ctx) ==
    IF state.tasks = << >>
    THEN send_message(yield_output(ctx, NoTasksText), [signal |-> WORKFLOW_COMPLETE])
    ELSE IF state.current_task_index >= Len(state.tasks)
    THEN _finalize(state, ctx)
    ELSE IF current_task(state) = None
    THEN send_message(yield_output(ctx, OutOfRangeText),
                      [signal |-> WORKFLOW_COMPLETE])
    ELSE LET task == current_task(state)[1]
         IN  CASE task.status \in {"pending", "blocked"} ->
                    _dispatch_task(ctx, state)
               [] task.status = "in_progress" -> ctx
               [] task.status = "needs_review" ->
                    send_message(
                        update_project_state(
                            ctx,
                            [state EXCEPT
                                !.tasks[state.current_task_index + 1].status =
                                    "in_progress"]),
                        [signal |-> REQUEST_VERIFICATION,
                         task_index |-> state.current_task_index])
               [] task.status = "completed" ->
                    LET advanced == [state EXCEPT !.current_task_index = @ + 1]
                    IN  _route(advanced, update_project_state(ctx, advanced))
               [] OTHER -> yield_output(ctx, UnknownStatusText(task.status))

\* A variant that moves the cursor two tasks on after a completed one.
_route_skipping(state, ctx) ==
    IF state.tasks = << >>
    THEN send_message(yield_output(ctx, NoTasksText), [signal |-> WORKFLOW_COMPLETE])
    ELSE IF state.current_task_index >= Len(state.tasks)
    THEN _finalize(state, ctx)
    ELSE IF current_task(state) = None
    THEN send_message(yield_output(ctx, OutOfRangeText),
                      [signal |-> WORKFLOW_COMPLETE])
    ELSE LET task == current_task(state)[1]
         IN  CASE task.status \in {"pending", "blocked"} ->
                    _dispatch_task(ctx, state)
               [] task.status = "in_progress" -> ctx
               [] task.status = "needs_review" ->
                    send_message(ctx, [signal |-> REQUEST_VERIFICATION,
                                       task_index |-> state.current_task_index])
               [] task.status = "completed" ->
                    LET advanced == [state EXCEPT !.current_task_index = @ + 2]
                    IN  _route(advanced, update_project_state(ctx, advanced))
               [] OTHER -> yield_output(ctx, UnknownStatusText(task.status))

\* _route that returns after advancing past a completed task.
_route_once(state, ctx) ==
    IF state.tasks = << >>
    THEN send_message(yield_output(ctx, NoTasksText), [signal |-> WORKFLOW_COMPLETE])
    ELSE IF state.current_task_index >= Len(state.tasks)
    THEN _finalize(state, ctx)
    ELSE IF current_task(state) = None
    THEN send_message(yield_output(ctx, OutOfRangeText),
                      [signal |-> WORKFLOW_COMPLETE])
    ELSE LET task == current_task(state)[1]
         IN  CASE task.status \in {"pending", "blocked"} ->
                    _dispatch_task(ctx, state)
               [] task.status = "in_progress" -> ctx
               [] task.status = "needs_review" ->
                    send_message(ctx, [signal |-> REQUEST_VERIFICATION,
                                       task_index |-> state.current_task_index])
               [] task.status = "completed" ->
                    LET advanced == [state EXCEPT !.current_task_index = @ + 1]
                    IN  update_project_state(ctx, advanced)
               [] OTHER -> yield_output(ctx, UnknownStatusText(task.status))

\* _route that dispatches a task that is in_progress once more.
_route_redispatching(state, ctx) ==
    IF state.tasks = << >>
    THEN send_message(yield_output(ctx, NoTasksText), [signal |-> WORKFLOW_COMPLETE])
    ELSE IF state.current_task_index >= Len(state.tasks)
    THEN _finalize(state, ctx)
    ELSE IF current_task(state) = None
    THEN send_message(yield_output(ctx, OutOfRangeText),
                      [signal |-> WORKFLOW_COMPLETE])
    ELSE LET task == current_task(state)[1]
         IN  CASE task.status \in {"pending", "blocked"} ->
                    _dispatch_task(ctx, state)
               [] task.status = "in_progress" -> _dispatch_task(ctx, state)
               [] task.status = "needs_review" ->
                    send_message(ctx, [signal |-> REQUEST_VERIFICATION,
                                       task_index |-> state.current_task_index])
               [] task.status = "completed" ->
                    LET advanced == [state EXCEPT !.current_task_index = @ + 1]
                    IN  _route(advanced, update_project_state(ctx, advanced))
               [] OTHER -> yield_output(ctx, UnknownStatusText(task.status))

\* _route that waits on a blocked task as it does on one in_progress.
_route_blocking(state, ctx) ==
    IF state.tasks = << >>
    THEN send_message(yield_output(ctx, NoTasksText), [signal |-> WORKFLOW_COMPLETE])
    ELSE IF state.current_task_index >= Len(state.tasks)
    THEN _finalize(state, ctx)
    ELSE IF current_task(state) = None
    THEN send_message(yield_output(ctx, OutOfRangeText),
                      [signal |-> WORKFLOW_COMPLETE])
    ELSE LET task == current_task(state)[1]
         IN  CASE task.status = "pending" ->
                    _dispatch_task(ctx, state)
               [] task.status \in {"in_progress", "blocked"} -> ctx
               [] task.status = "needs_review" ->
                    send_message(ctx, [signal |-> REQUEST_VERIFICATION,
                                       task_index |-> state.current_task_index])
               [] task.status = "completed" ->
                    LET advanced == [state EXCEPT !.current_task_index = @ + 1]
                    IN  _route(advanced, update_project_state(ctx, advanced))
               [] OTHER -> yield_output(ctx, UnknownStatusText(task.status))

\* DispatcherExecutor._route
_route(state, ctx) ==
    IF state.tasks = << >>
    THEN send_message(yield_output(ctx, NoTasksText), [signal |-> WORKFLOW_COMPLETE])
    ELSE IF state.current_task_index >= Len(state.tasks)
    THEN _finalize(state, ctx)
    ELSE IF current_task(state) = None
    THEN send_message(yield_output(ctx, OutOfRangeText),
                      [signal |-> WORKFLOW_COMPLETE])
    ELSE LET task == current_task(state)[1]
         IN  CASE task.status \in {"pending", "blocked"} ->
                    _dispatch_task(ctx, state)
               [] task.status = "in_progress" -> ctx
               [] task.status = "needs_review" ->
                    send_message(ctx, [signal |-> REQUEST_VERIFICATION,
                                       task_index |-> state.current_task_index])
               [] task.status = "completed" ->
                    LET advanced == [state EXCEPT !.current_task_index = @ + 1]
                    IN  _route(advanced, update_project_state(ctx, advanced))
               [] OTHER -> yield_output(ctx, UnknownStatusText(task.status))

\* DispatcherExecutor.handle: the signal is read and ignored; every message
\* leads to one routing pass over the stored ledger.
Dispatcher_run(message, ctx) ==
    IF ~Valid(ctx.shared)
    THEN [raised |-> "ValidationError", called |-> FALSE, ctx |-> ctx]
    ELSE [raised |-> "none", called |-> FALSE,
          ctx |-> _route(get_project_state(ctx), ctx)]

\* ------------------------------------------------ the agents' responses

\* An agent response as _response_to_text and the parsers read it: `isNone`
\* (the response is None), `value` (None, or Some(parsed payload)),
\* `output_text` (None when absent), `content` (None when there are no
\* messages or the last has no content, else Some(str(last.content))), `json`
\* (what json.loads makes of the text: None for a JSONDecodeError, else
\* Some(decoded dict)) and `repr` (str(response)).
Response(value, output_text, content, json) ==
    [isNone |-> FALSE, value |-> value, output_text |-> output_text,
     content |-> content, json |-> json, repr |-> <<"r">>]

NoneResponse ==
    [isNone |-> TRUE, value |-> None, output_text |-> None,
     content |-> None, json |-> None, repr |-> <<"None">>]

\* _response_to_text (the same function in planning.py, implementation.py and
\* verification.py)
_response_to_text(response) ==
    IF response.isNone THEN << >>
    ELSE IF Truthy(response.output_text) THEN response.output_text[1]
    ELSE IF response.content # None THEN response.content[1]
    ELSE response.repr

\* A dict without any key.
EmptyDict == << >>

\* ------------------------------------------------ executors/planning.py

\* _message_to_text, for the str the run is started with.
_message_to_text(message) == Strip(message)

\* PlanningExecutor._parse_tasks: [ok |-> TRUE, tasks |-> ...], or the
\* exception json.loads raises.
_parse_tasks(response) ==
    LET data == IF response.value # None THEN Some(response.value[1].data)
                ELSE response.json
    IN  IF data = None THEN [ok |-> FALSE, error |-> "JSONDecodeError"]
        ELSE LET raw_tasks == GetOr(data[1], "tasks", << >>)
             IN  [ok |-> TRUE,
                  tasks |-> [k \in DOMAIN raw_tasks |-> Task(raw_tasks[k])]]

\* PlanningExecutor.handle without the check that the plan has a task.
Planner_run_lenient(message, response, ctx) ==
    LET user_request == _message_to_text(message)
        state == get_project_state(ctx)
        named == IF state.original_request = << >>
                 THEN [state EXCEPT !.original_request = user_request]
                 ELSE state
        parsed == _parse_tasks(response)
    IN  IF ~Valid(ctx.shared)
        THEN [raised |-> "ValidationError", called |-> FALSE, ctx |-> ctx]
        ELSE IF ~parsed.ok THEN [raised |-> parsed.error, called |-> TRUE, ctx |-> ctx]
        ELSE LET planned == [named EXCEPT !.tasks = parsed.tasks,
                                          !.current_task_index = 0]
             IN  [raised |-> "none", called |-> TRUE,
                  ctx |-> send_message(update_project_state(ctx, planned),
                                       [signal |-> PLAN_CREATED])]

\* PlanningExecutor.handle that starts the cursor at 1.
Planner_run_onebased(message, response, ctx) ==
    LET user_request == _message_to_text(message)
        state == get_project_state(ctx)
        named == IF state.original_request = << >>
                 THEN [state EXCEPT !.original_request = user_request]
                 ELSE state
        parsed == _parse_tasks(response)
    IN  IF ~Valid(ctx.shared)
        THEN [raised |-> "ValidationError", called |-> FALSE, ctx |-> ctx]
        ELSE IF ~parsed.ok THEN [raised |-> parsed.error, called |-> TRUE, ctx |-> ctx]
        ELSE IF parsed.tasks = << >> THEN [raised |-> "ValueError", called |-> TRUE, ctx |-> ctx]
        ELSE LET planned == [named EXCEPT !.tasks = parsed.tasks,
                                          !.current_task_index = 1]
             IN  [raised |-> "none", called |-> TRUE,
                  ctx |-> send_message(update_project_state(ctx, planned),
                                       [signal |-> PLAN_CREATED])]

\* PlanningExecutor.handle, given the planner agent's response.
Planner_run(message, response, ctx) ==
    LET user_request == _message_to_text(message)
        state == get_project_state(ctx)
        named == IF state.original_request = << >>
                 THEN [state EXCEPT !.original_request = user_request]
                 ELSE state
        parsed == _parse_tasks(response)
    IN  IF ~Valid(ctx.shared)
        THEN [raised |-> "ValidationError", called |-> FALSE, ctx |-> ctx]
        ELSE IF ~parsed.ok THEN [raised |-> parsed.error, called |-> TRUE, ctx |-> ctx]
        ELSE IF parsed.tasks = << >> THEN [raised |-> "ValueError", called |-> TRUE, ctx |-> ctx]
        ELSE LET planned == [named EXCEPT !.tasks = parsed.tasks,
                                          !.current_task_index = 0]
             IN  [raised |-> "none", called |-> TRUE,
                  ctx |-> send_message(update_project_state(ctx, planned),
                                       [signal |-> PLAN_CREATED])]

\* ------------------------------------------ executors/implementation.py

\* ImplementationExecutor._resolve_task / VerificationExecutor._resolve_task
_resolve_task(state, index) ==
    IF 0 <= index /\ index < Len(state.tasks) THEN Some(state.tasks[index + 1])
    ELSE None

\* A variant that appends the new deliverable to the output the task
\* already has.
Implementation_run_appending(role, message, response, ctx) ==
    IF Get(message, "signal") # DISPATCH_TASK THEN [raised |-> "none", called |-> FALSE, ctx |-> ctx]
    ELSE IF Get(message, "assignee") # role THEN [raised |-> "none", called |-> FALSE, ctx |-> ctx]
    ELSE IF "task_index" \notin DOMAIN message
    THEN [raised |-> "KeyError", called |-> FALSE, ctx |-> ctx]
    ELSE IF ~Valid(ctx.shared)
    THEN [raised |-> "ValidationError", called |-> FALSE, ctx |-> ctx]
    ELSE LET task_index == message.task_index
             state == get_project_state(ctx)
         IN  IF _resolve_task(state, task_index) = None
             THEN [raised |-> "IndexError", called |-> FALSE, ctx |-> ctx]
             ELSE LET done == [state EXCEPT
                                  !.tasks[task_index + 1].output =
                                      IF @ = None
                                      THEN Some(_response_to_text(response))
                                      ELSE Some(@[1] \o _response_to_text(response)),
                                  !.tasks[task_index + 1].status = "needs_review",
                                  !.tasks[task_index + 1].feedback = None]
                  IN  [raised |-> "none", called |-> TRUE,
                       ctx |-> send_message(
                                   update_project_state(ctx, done),
                                   [signal |-> ADVANCE_TASK,
                                    task_index |-> task_index])]

\* A variant that leaves the task's feedback in place.
Implementation_run_keeping(role, message, response, ctx) ==
    IF Get(message, "signal") # DISPATCH_TASK THEN [raised |-> "none", called |-> FALSE, ctx |-> ctx]
    ELSE IF Get(message, "assignee") # role THEN [raised |-> "none", called |-> FALSE, ctx |-> ctx]
    ELSE IF "task_index" \notin DOMAIN message
    THEN [raised |-> "KeyError", called |-> FALSE, ctx |-> ctx]
    ELSE IF ~Valid(ctx.shared)
    THEN [raised |-> "ValidationError", called |-> FALSE, ctx |-> ctx]
    ELSE LET task_index == message.task_index
             state == get_project_state(ctx)
         IN  IF _resolve_task(state, task_index) = None
             THEN [raised |-> "IndexError", called |-> FALSE, ctx |-> ctx]
             ELSE LET done == [state EXCEPT
                                  !.tasks[task_index + 1].output =
                                      Some(_response_to_text(response)),
                                  !.tasks[task_index + 1].status = "needs_review"]
                  IN  [raised |-> "none", called |-> TRUE,
                       ctx |-> send_message(
                                   update_project_state(ctx, done),
                                   [signal |-> ADVANCE_TASK,
                                    task_index |-> task_index])]

\* Implementation_run without the comparison of the assignee with the role.
Implementation_run_anyrole(role, message, response, ctx) ==
    IF Get(message, "signal") # DISPATCH_TASK THEN [raised |-> "none", called |-> FALSE, ctx |-> ctx]
    ELSE IF "task_index" \notin DOMAIN message
    THEN [raised |-> "KeyError", called |-> FALSE, ctx |-> ctx]
    ELSE IF ~Valid(ctx.shared)
    THEN [raised |-> "ValidationError", called |-> FALSE, ctx |-> ctx]
    ELSE LET task_index == message.task_index
             state == get_project_state(ctx)
         IN  IF _resolve_task(state, task_index) = None
             THEN [raised |-> "IndexError", called |-> FALSE, ctx |-> ctx]
             ELSE LET done == [state EXCEPT
                                  !.tasks[task_index + 1].output =
                                      Some(_response_to_text(response)),
                                  !.tasks[task_index + 1].status = "needs_review",
                                  !.tasks[task_index + 1].feedback = None]
                  IN  [raised |-> "none", called |-> TRUE,
                       ctx |-> send_message(
                                   update_project_state(ctx, done),
                                   [signal |-> ADVANCE_TASK,
                                    task_index |-> task_index])]

\* Implementation_run that stores the output and leaves the status as it is.
Implementation_run_unmarked(role, message, response, ctx) ==
    IF Get(message, "signal") # DISPATCH_TASK THEN [raised |-> "none", called |-> FALSE, ctx |-> ctx]
    ELSE IF Get(message, "assignee") # role THEN [raised |-> "none", called |-> FALSE, ctx |-> ctx]
    ELSE IF "task_index" \notin DOMAIN message
    THEN [raised |-> "KeyError", called |-> FALSE, ctx |-> ctx]
    ELSE IF ~Valid(ctx.shared)
    THEN [raised |-> "ValidationError", called |-> FALSE, ctx |-> ctx]
    ELSE LET task_index == message.task_index
             state == get_project_state(ctx)
         IN  IF _resolve_task(state, task_index) = None
             THEN [raised |-> "IndexError", called |-> FALSE, ctx |-> ctx]
             ELSE LET done == [state EXCEPT
                                  !.tasks[task_index + 1].output =
                                      Some(_response_to_text(response)),
                                  !.tasks[task_index + 1].feedback = None]
                  IN  [raised |-> "none", called |-> TRUE,
                       ctx |-> send_message(
                                   update_project_state(ctx, done),
                                   [signal |-> ADVANCE_TASK,
                                    task_index |-> task_index])]

\* ImplementationExecutor.handle for the executor of `role`, given the
\* implementer agent's response.
Implementation_run(role, message, response, ctx) ==
    IF Get(message, "signal") # DISPATCH_TASK THEN [raised |-> "none", called |-> FALSE, ctx |-> ctx]
    ELSE IF Get(message, "assignee") # role THEN [raised |-> "none", called |-> FALSE, ctx |-> ctx]
    ELSE IF "task_index" \notin DOMAIN message
    THEN [raised |-> "KeyError", called |-> FALSE, ctx |-> ctx]
    ELSE IF ~Valid(ctx.shared)
    THEN [raised |-> "ValidationError", called |-> FALSE, ctx |-> ctx]
    ELSE LET task_index == message.task_index
             state == get_project_state(ctx)
         IN  IF _resolve_task(state, task_index) = None
             THEN [raised |-> "IndexError", called |-> FALSE, ctx |-> ctx]
             ELSE LET done == [state EXCEPT
                                  !.tasks[task_index + 1].output =
                                      Some(_response_to_text(response)),
                                  !.tasks[task_index + 1].status = "needs_review",
                                  !.tasks[task_index + 1].feedback = None]
                  IN  [raised |-> "none", called |-> TRUE,
                       ctx |-> send_message(
                                   update_project_state(ctx, done),
                                   [signal |-> ADVANCE_TASK,
                                    task_index |-> task_index])]

\* ------------------------------------------- executors/verification.py

RejectedText == <<"Verifier rejected output.">>

\* str.lower() on the letters the responses use.
Lower(s) ==
    [k \in DOMAIN s |->
        CASE s[k] = "P" -> "p" [] s[k] = "A" -> "a" [] s[k] = "S" -> "s"
          [] s[k] = "F" -> "f" [] s[k] = "I" -> "i" [] s[k] = "L" -> "l"
          [] OTHER -> s[k]]

\* pattern in text
Contains(text, pattern) ==
    \E k \in 0..(Len(text) - Len(pattern)) :
        SubSeq(text, k + 1, k + Len(pattern)) = pattern

\* VerificationExecutor._parse_verdict: <<verdict, feedback>>, the feedback an
\* Optional[str] as dict.get can return None.
_parse_verdict(response) ==
    IF response.value # None /\ response.value[1].type = "VerificationResult"
    THEN <<response.value[1].data.verdict, Some(response.value[1].data.feedback)>>
    ELSE IF response.value # None
    THEN <<GetOr(response.value[1].data, "verdict", "fail"),
           Some(GetOr(response.value[1].data, "feedback", << >>))>>
    ELSE LET text == _response_to_text(response)
         IN  IF response.json # None
             THEN <<GetOr(response.json[1], "verdict", "fail"),
                    Some(GetOr(response.json[1], "feedback", << >>))>>
             ELSE LET normalized == Lower(text)
                  IN  <<IF Contains(normalized, <<"p", "a", "s", "s">>)
                           /\ ~Contains(normalized, <<"f", "a", "i", "l">>)
                        THEN "pass" ELSE "fail",
                        Some(text)>>

\* A variant whose pass branch clears the feedback and leaves the status.
Verification_run_unmarked(message, response, ctx) ==
    IF Get(message, "signal") # REQUEST_VERIFICATION THEN [raised |-> "none", called |-> FALSE, ctx |-> ctx]
    ELSE IF "task_index" \notin DOMAIN message
    THEN [raised |-> "KeyError", called |-> FALSE, ctx |-> ctx]
    ELSE IF ~Valid(ctx.shared)
    THEN [raised |-> "ValidationError", called |-> FALSE, ctx |-> ctx]
    ELSE LET task_index == message.task_index
             state == get_project_state(ctx)
             task == _resolve_task(state, task_index)
         IN  IF task = None THEN [raised |-> "IndexError", called |-> FALSE, ctx |-> ctx]
             ELSE IF ~Truthy(task[1].output) THEN [raised |-> "ValueError", called |-> FALSE, ctx |-> ctx]
             ELSE LET verdict == _parse_verdict(response)[1]
                      feedback == _parse_verdict(response)[2]
                      judged ==
                          IF verdict = "pass"
                          THEN [state EXCEPT
                                   !.tasks[task_index + 1].feedback = None]
                          ELSE [state EXCEPT
                                   !.tasks[task_index + 1].status = "pending",
                                   !.tasks[task_index + 1].feedback =
                                       IF Truthy(feedback) THEN feedback
                                       ELSE Some(RejectedText)]
                  IN  [raised |-> "none", called |-> TRUE,
                       ctx |-> send_message(
                                   update_project_state(ctx, judged),
                                   [signal |-> ADVANCE_TASK,
                                    task_index |-> task_index])]

\* A variant that attaches the verifier's feedback as it is, empty or not.
Verification_run_verbatim(message, response, ctx) ==
    IF Get(message, "signal") # REQUEST_VERIFICATION THEN [raised |-> "none", called |-> FALSE, ctx |-> ctx]
    ELSE IF "task_index" \notin DOMAIN message
    THEN [raised |-> "KeyError", called |-> FALSE, ctx |-> ctx]
    ELSE IF ~Valid(ctx.shared)
    THEN [raised |-> "ValidationError", called |-> FALSE, ctx |-> ctx]
    ELSE LET task_index == message.task_index
             state == get_project_state(ctx)
             task == _resolve_task(state, task_index)
         IN  IF task = None THEN [raised |-> "IndexError", called |-> FALSE, ctx |-> ctx]
             ELSE IF ~Truthy(task[1].output) THEN [raised |-> "ValueError", called |-> FALSE, ctx |-> ctx]
             ELSE LET verdict == _parse_verdict(response)[1]
                      feedback == _parse_verdict(response)[2]
                      judged ==
                          IF verdict = "pass"
                          THEN [state EXCEPT
                                   !.tasks[task_index + 1].status = "completed",
                                   !.tasks[task_index + 1].feedback = None]
                          ELSE [state EXCEPT
                                   !.tasks[task_index + 1].status = "pending",
                                   !.tasks[task_index + 1].feedback =
                                       feedback]
                  IN  [raised |-> "none", called |-> TRUE,
                       ctx |-> send_message(
                                   update_project_state(ctx, judged),
                                   [signal |-> ADVANCE_TASK,
                                    task_index |-> task_index])]

\* Verification_run without the check that the task has an output.
Verification_run_unchecked(message, response, ctx) ==
    IF Get(message, "signal") # REQUEST_VERIFICATION THEN [raised |-> "none", called |-> FALSE, ctx |-> ctx]
    ELSE IF "task_index" \notin DOMAIN message
    THEN [raised |-> "KeyError", called |-> FALSE, ctx |-> ctx]
    ELSE IF ~Valid(ctx.shared)
    THEN [raised |-> "ValidationError", called |-> FALSE, ctx |-> ctx]
    ELSE LET task_index == message.task_index
             state == get_project_state(ctx)
             task == _resolve_task(state, task_index)
         IN  IF task = None THEN [raised |-> "IndexError", called |-> FALSE, ctx |-> ctx]
             ELSE LET verdict == _parse_verdict(response)[1]
                      feedback == _parse_verdict(response)[2]
                      judged ==
                          IF verdict = "pass"
                          THEN [state EXCEPT
                                   !.tasks[task_index + 1].status = "completed",
                                   !.tasks[task_index + 1].feedback = None]
                          ELSE [state EXCEPT
                                   !.tasks[task_index + 1].status = "pending",
                                   !.tasks[task_index + 1].feedback =
                                       IF Truthy(feedback) THEN feedback
                                       ELSE Some(RejectedText)]
                  IN  [raised |-> "none", called |-> TRUE,
                       ctx |-> send_message(
                                   update_project_state(ctx, judged),
                                   [signal |-> ADVANCE_TASK,
                                    task_index |-> task_index])]

\* Verification_run whose pass branch also records the accepted output as
\* final_artifact.
Verification_run_finalizing(message, response, ctx) ==
    IF Get(message, "signal") # REQUEST_VERIFICATION THEN [raised |-> "none", called |-> FALSE, ctx |-> ctx]
    ELSE IF "task_index" \notin DOMAIN message
    THEN [raised |-> "KeyError", called |-> FALSE, ctx |-> ctx]
    ELSE IF ~Valid(ctx.shared)
    THEN [raised |-> "ValidationError", called |-> FALSE, ctx |-> ctx]
    ELSE LET task_index == message.task_index
             state == get_project_state(ctx)
             task == _resolve_task(state, task_index)
         IN  IF task = None THEN [raised |-> "IndexError", called |-> FALSE, ctx |-> ctx]
             ELSE IF ~Truthy(task[1].output) THEN [raised |-> "ValueError", called |-> FALSE, ctx |-> ctx]
             ELSE LET verdict == _parse_verdict(response)[1]
                      feedback == _parse_verdict(response)[2]
                      judged ==
                          IF verdict = "pass"
                          THEN [state EXCEPT
                                   !.tasks[task_index + 1].status = "completed",
                                   !.tasks[task_index + 1].feedback = None,
                                   !.final_artifact = task[1].output]
                          ELSE [state EXCEPT
                                   !.tasks[task_index + 1].status = "pending",
                                   !.tasks[task_index + 1].feedback =
                                       IF Truthy(feedback) THEN feedback
                                       ELSE Some(RejectedText)]
                  IN  [raised |-> "none", called |-> TRUE,
                       ctx |-> send_message(
                                   update_project_state(ctx, judged),
                                   [signal |-> ADVANCE_TASK,
                                    task_index |-> task_index])]

\* Verification_run whose fail branch hands the task straight back to its
\* implementer as in_progress.
Verification_run_reassigning(message, response, ctx) ==
    IF Get(message, "signal") # REQUEST_VERIFICATION THEN [raised |-> "none", called |-> FALSE, ctx |-> ctx]
    ELSE IF "task_index" \notin DOMAIN message
    THEN [raised |-> "KeyError", called |-> FALSE, ctx |-> ctx]
    ELSE IF ~Valid(ctx.shared)
    THEN [raised |-> "ValidationError", called |-> FALSE, ctx |-> ctx]
    ELSE LET task_index == message.task_index
             state == get_project_state(ctx)
             task == _resolve_task(state, task_index)
         IN  IF task = None THEN [raised |-> "IndexError", called |-> FALSE, ctx |-> ctx]
             ELSE IF ~Truthy(task[1].output) THEN [raised |-> "ValueError", called |-> FALSE, ctx |-> ctx]
             ELSE LET verdict == _parse_verdict(response)[1]
                      feedback == _parse_verdict(response)[2]
                      judged ==
                          IF verdict = "pass"
                          THEN [state EXCEPT
                                   !.tasks[task_index + 1].status = "completed",
                                   !.tasks[task_index + 1].feedback = None]
                          ELSE [state EXCEPT
                                   !.tasks[task_index + 1].status = "in_progress",
                                   !.tasks[task_index + 1].feedback =
                                       IF Truthy(feedback) THEN feedback
                                       ELSE Some(RejectedText)]
                  IN  [raised |-> "none", called |-> TRUE,
                       ctx |-> send_message(
                                   update_project_state(ctx, judged),
                                   [signal |-> ADVANCE_TASK,
                                    task_index |-> task_index])]

\* VerificationExecutor.handle, given the verifier agent's response.
Verification_run(message, response, ctx) ==
    IF Get(message, "signal") # REQUEST_VERIFICATION THEN [raised |-> "none", called |-> FALSE, ctx |-> ctx]
    ELSE IF "task_index" \notin DOMAIN message
    THEN [raised |-> "KeyError", called |-> FALSE, ctx |-> ctx]
    ELSE IF ~Valid(ctx.shared)
    THEN [raised |-> "ValidationError", called |-> FALSE, ctx |-> ctx]
    ELSE LET task_index == message.task_index
             state == get_project_state(ctx)
             task == _resolve_task(state, task_index)
         IN  IF task = None THEN [raised |-> "IndexError", called |-> FALSE, ctx |-> ctx]
             ELSE IF ~Truthy(task[1].output) THEN [raised |-> "ValueError", called |-> FALSE, ctx |-> ctx]
             ELSE LET verdict == _parse_verdict(response)[1]
                      feedback == _parse_verdict(response)[2]
                      judged ==
                          IF verdict = "pass"
                          THEN [state EXCEPT
                                   !.tasks[task_index + 1].status = "completed",
                                   !.tasks[task_index + 1].feedback = None]
                          ELSE [state EXCEPT
                                   !.tasks[task_index + 1].status = "pending",
                                   !.tasks[task_index + 1].feedback =
                                       IF Truthy(feedback) THEN feedback
                                       ELSE Some(RejectedText)]
                  IN  [raised |-> "none", called |-> TRUE,
                       ctx |-> send_message(
                                   update_project_state(ctx, judged),
                                   [signal |-> ADVANCE_TASK,
                                    task_index |-> task_index])]

\* ----------------------------------------------------------- workflow.py

ImplementationId(role) ==
    IF role = "coder" THEN "implementation_coder" ELSE "implementation_researcher"

\* _assignee_condition(target)(message)
_assignee_condition(target, message) ==
    Get(message, "signal") = DISPATCH_TASK /\ Get(message, "assignee") = target

_verification_condition(message) == Get(message, "signal") = REQUEST_VERIFICATION

\* build_workflow without the edge from the verifier back to the dispatcher.
Targets_unreturned(source, message) ==
    IF source = "dispatcher"
    THEN (IF _assignee_condition("coder", message)
          THEN <<ImplementationId("coder")>> ELSE << >>)
         \o (IF _assignee_condition("researcher", message)
             THEN <<ImplementationId("researcher")>> ELSE << >>)
         \o (IF _verification_condition(message) THEN <<"verifier">> ELSE << >>)
    ELSE IF source = "verifier" THEN << >>
    ELSE <<"dispatcher">>

\* build_workflow with unconditional edges from the dispatcher to the two
\* implementers.
Targets_broadcast(source, message) ==
    IF source = "dispatcher"
    THEN (IF Get(message, "signal") = DISPATCH_TASK
          THEN <<ImplementationId("coder"), ImplementationId("researcher")>>
          ELSE << >>)
         \o (IF _verification_condition(message) THEN <<"verifier">> ELSE << >>)
    ELSE <<"dispatcher">>

\* build_workflow's edges: the executors a message sent by `source` reaches.
Targets(source, message) ==
    IF source = "dispatcher"
    THEN (IF _assignee_condition("coder", message)
          THEN <<ImplementationId("coder")>> ELSE << >>)
         \o (IF _assignee_condition("researcher", message)
             THEN <<ImplementationId("researcher")>> ELSE << >>)
         \o (IF _verification_condition(message) THEN <<"verifier">> ELSE << >>)
    ELSE <<"dispatcher">>

RECURSIVE Deliveries(_, _)
\* The in-flight entries the messages `sent` by `source` become.
Deliveries(source, sent) ==
    IF sent = << >> THEN << >>
    ELSE LET to == Targets(source, sent[1])
         IN  [k \in DOMAIN to |-> [to |-> to[k], msg |-> sent[1]]]
             \o Deliveries(source, Tail(sent))

Remove(seq, i) == SubSeq(seq, 1, i - 1) \o SubSeq(seq, i + 1, Len(seq))

\* One handler invocation applied to the run: the handled message leaves the
\* queue; an exception ends the run with the stored ledger as it was; otherwise
\* the stored snapshot, the sent messages and the outputs are taken over.
\* `returned` is what the agent call of the handler gave: the planner's parsed
\* task list, the implementer's text, the verifier's verdict, feedback and
\* response.
Complete(i, source, result, returned) ==
    /\ inflight' = IF result.raised # "none" THEN Remove(inflight, i)
                   ELSE Remove(inflight, i) \o Deliveries(source, result.ctx.sent)
    /\ ledger' = IF result.raised # "none" THEN ledger ELSE result.ctx.shared
    /\ events' = IF result.raised # "none" THEN events
                 ELSE events \o [k \in DOMAIN result.ctx.sent |->
                                    [from |-> source, msg |-> result.ctx.sent[k]]]
    /\ outputs' = IF result.raised # "none" THEN outputs
                  ELSE outputs \o result.ctx.out
    /\ calls' = IF ~result.called \/ source = "planner" THEN calls
                ELSE IF source = "verifier"
                THEN [calls EXCEPT !.rejects = IF returned[1] = "pass" THEN @ ELSE @ + 1]
                ELSE [calls EXCEPT !.implemented = Some(returned)]
    /\ failure' = result.raised
    /\ last' = [by |-> source, msg |-> inflight[i].msg, before |-> ledger,
                returned |-> IF result.called THEN Some(returned) ELSE None,
                sent |-> IF result.raised # "none" THEN << >> ELSE result.ctx.sent,
                out |-> IF result.raised # "none" THEN << >> ELSE result.ctx.out]

\* ------------------------------------------------------- input domains

Requests == {<<"q">>, <<" ", "q", " ">>}

\* What the prompt and the agents can be.  The planner agent is created with
\* response_format = PlannerResponsePayload, so each task it returns carries
\* title, description and assignee and no other field, whichever way
\* _parse_tasks reads the response.  An agent call that raises is not part of
\* these domains: every call returns.

\* The planner's payloads: {title, description, assignee} (planning.py 15-20).
Payloads == {[title |-> <<"T">>, description |-> <<"D">>, assignee |-> r] : r \in Roles}

PayloadLists == UNION {[1..n -> Payloads] : n \in 0..MaxTasks}

PlannerResponses ==
    {Response(Some([type |-> "PlannerResponsePayload", data |-> [tasks |-> ts]]),
              None, None, None) : ts \in PayloadLists}
    \cup {Response(Some([type |-> "dict", data |-> EmptyDict]), None, None, None),
          Response(None, Some(<<"{", "}">>), None, Some(EmptyDict)),
          Response(None, Some(<<"n", "o">>), None, None),
          NoneResponse}

ImplementationResponses ==
    {NoneResponse,
     Response(None, Some(<<"a">>), None, None),
     Response(None, Some(<< >>), Some(<<"a">>), None),
     Response(None, None, Some(<< >>), None),
     Response(None, None, None, None)}

VerificationResult(verdict, feedback) ==
    Response(Some([type |-> "VerificationResult",
                   data |-> [verdict |-> verdict, feedback |-> feedback]]),
             None, None, None)

VerifierResponses ==
    {VerificationResult("pass", << >>),
     VerificationResult("fail", << >>),
     VerificationResult("fail", <<"x">>),
     Response(Some([type |-> "dict", data |-> [feedback |-> <<"x">>]]),
              None, None, None),
     Response(Some([type |-> "dict", data |-> [verdict |-> "pass"]]),
              None, None, None),
     Response(None, Some(<<"{", "}">>), None, Some(EmptyDict)),
     Response(None, Some(<<"P", "A", "S", "S">>), None, None),
     Response(None, Some(<<"x">>), None, None),
     NoneResponse}

\* The verdicts other than pass the verifier has returned in this run.
Rejects == calls.rejects

\* Before any handler has run.
NoHandler(stored) ==
    [by |-> "none", msg |-> << >>, before |-> stored, returned |-> None,
     sent |-> << >>, out |-> << >>]

\* -------------------------------------------------------------- actions

PlanningExecutor_handle ==
    \E i \in DOMAIN inflight, response \in PlannerResponses :
        /\ failure = "none"
        /\ inflight[i].to = "planner"
        /\ Complete(i, "planner",
                    Planner_run(inflight[i].msg, response, Context(ledger)),
                    _parse_tasks(response))

DispatcherExecutor_handle ==
    \E i \in DOMAIN inflight :
        /\ failure = "none"
        /\ inflight[i].to = "dispatcher"
        /\ Complete(i, "dispatcher",
                    Dispatcher_run(inflight[i].msg, Context(ledger)), "none")

ImplementationExecutor_handle ==
    \E i \in DOMAIN inflight, role \in Roles, response \in ImplementationResponses :
        /\ failure = "none"
        /\ inflight[i].to = ImplementationId(role)
        /\ Complete(i, ImplementationId(role),
                    Implementation_run(role, inflight[i].msg, response, Context(ledger)),
                    _response_to_text(response))

VerificationExecutor_handle ==
    \E i \in DOMAIN inflight, response \in VerifierResponses :
        /\ failure = "none"
        /\ inflight[i].to = "verifier"
        /\ (_parse_verdict(response)[1] # "pass" => Rejects < MaxRejects)
        /\ Complete(i, "verifier",
                    Verification_run(inflight[i].msg, response, Context(ledger)),
                    _parse_verdict(response) \o <<response>>)

\* ------------------------------------------------------------ a run

\* workflow.run_stream(prompt): an empty store, the prompt on its way to the
\* start executor.
Init ==
    /\ ledger = ProjectState
    /\ inflight \in {<<[to |-> "planner", msg |-> request]>> : request \in Requests}
    /\ events = << >>
    /\ outputs = << >>
    /\ calls = [rejects |-> 0, implemented |-> None]
    /\ failure = "none"
    /\ last = NoHandler(ledger)

Next ==
    \/ PlanningExecutor_handle
    \/ DispatcherExecutor_handle
    \/ ImplementationExecutor_handle
    \/ VerificationExecutor_handle

Spec == Init /\ [][Next]_vars

\* ------------------------------------- a routing pass over any ledger

\* Ledgers as a store can hold them (the tests build them directly): tasks in
\* any status, "archived" standing for a value outside TaskStatus, with and
\* without output and feedback, the cursor anywhere from -1 to past the end,
\* final_artifact unset, empty or set.
AnyStatus == TaskStatus \cup {"archived"}

AnyTasks ==
    {[title |-> <<"T">>, description |-> <<"D">>, assignee |-> p[1],
      status |-> s, output |-> p[2], feedback |-> p[3]] :
        s \in AnyStatus,
        p \in {<<"coder", None, None>>,
               <<"researcher", Some(<<"a">>), Some(<<"x">>)>>,
               <<"coder", Some(<< >>), None>>,
               <<"researcher", Some(<<"r">>), None>>}}

AnyLedgers ==
    {[original_request |-> <<"q">>, tasks |-> ts, current_task_index |-> c,
      final_artifact |-> f] :
        ts \in UNION {[1..n -> AnyTasks] : n \in 0..MaxTasks},
        c \in (0 - 1)..(MaxTasks + 1),
        f \in {None, Some(<< >>), Some(<<"z">>)}}

AnyMessages ==
    {[signal |-> PLAN_CREATED],
     [signal |-> ADVANCE_TASK, task_index |-> 0]}

InitRouter ==
    /\ ledger \in {l \in AnyLedgers : l.current_task_index <= Len(l.tasks) + 1}
    /\ inflight \in {<<[to |-> "dispatcher", msg |-> m]>> : m \in AnyMessages}
    /\ events = << >>
    /\ outputs = << >>
    /\ calls = [rejects |-> 0, implemented |-> None]
    /\ failure = "none"
    /\ last = NoHandler(ledger)

NextRouter == DispatcherExecutor_handle

SpecRouter == InitRouter /\ [][NextRouter]_vars

\* ------------------------------------ a worker handler over any message

\* Ledgers a worker can find in the store: tasks awaiting implementation or
\* review, or with a status outside TaskStatus, with the output unset, empty
\* or set.
WorkerTasks ==
    {[title |-> <<"T">>, description |-> <<"D">>, assignee |-> p[1],
      status |-> s, output |-> p[2], feedback |-> p[3]] :
        s \in {"in_progress", "needs_review", "archived"},
        p \in {<<"coder", None, None>>,
               <<"researcher", Some(<< >>), Some(<<"x">>)>>,
               <<"coder", Some(<<"a">>), None>>}}

WorkerLedgers ==
    {[original_request |-> <<"q">>, tasks |-> ts, current_task_index |-> 0,
      final_artifact |-> None] :
        ts \in UNION {[1..n -> WorkerTasks] : n \in 0..MaxTasks}}

\* The messages an executor can be handed: dispatch_task for either role and
\* request_verification, with a task_index from -1 to the number of tasks
\* allowed, and messages that are for no worker.
WorkerMessages ==
    {[signal |-> DISPATCH_TASK, task_index |-> k, assignee |-> r] :
        k \in (0 - 1)..MaxTasks, r \in Roles}
    \cup {[signal |-> REQUEST_VERIFICATION, task_index |-> k] : k \in (0 - 1)..MaxTasks}
    \cup {[signal |-> ADVANCE_TASK, task_index |-> 0], [signal |-> PLAN_CREATED]}

Workers == {ImplementationId(r) : r \in Roles} \cup {"verifier"}

\* executor.handle(message, ctx) called directly, as the tests call the
\* dispatcher's: any of the messages handed to any of the workers.
InitWorker ==
    /\ ledger \in WorkerLedgers
    /\ inflight \in {<<[to |-> w, msg |-> m]>> : w \in Workers, m \in WorkerMessages}
    /\ events = << >>
    /\ outputs = << >>
    /\ calls = [rejects |-> 0, implemented |-> None]
    /\ failure = "none"
    /\ last = NoHandler(ledger)

NextWorker ==
    \/ ImplementationExecutor_handle
    \/ VerificationExecutor_handle

SpecWorker == InitWorker /\ [][NextWorker]_vars

\* ------------------------------------------ any handler over any ledger

\* Well-typed ledgers in any stage of a run or left by another writer: tasks
\* in each of the five statuses, fresh or with output and feedback, the cursor
\* on any task or at the end.
HandlerTasks ==
    {[title |-> <<"T">>, description |-> <<"D">>, assignee |-> p[1],
      status |-> s, output |-> p[2], feedback |-> p[3]] :
        s \in TaskStatus,
        p \in {<<"coder", None, None>>,
               <<"researcher", Some(<<"a">>), Some(<<"x">>)>>}}

HandlerLedgers ==
    {[original_request |-> <<"q">>, tasks |-> ts, current_task_index |-> c,
      final_artifact |-> None] :
        ts \in UNION {[1..n -> HandlerTasks] : n \in 0..MaxTasks},
        c \in 0..MaxTasks}

\* What the edges of build_workflow can deliver to each executor.
HandlerInbox ==
    {[to |-> "planner", msg |-> request] : request \in Requests}
    \cup {[to |-> "dispatcher", msg |-> m] : m \in AnyMessages}
    \cup {[to |-> ImplementationId(r),
           msg |-> [signal |-> DISPATCH_TASK, task_index |-> k, assignee |-> r]] :
             r \in Roles, k \in 0..(MaxTasks - 1)}
    \cup {[to |-> "verifier",
           msg |-> [signal |-> REQUEST_VERIFICATION, task_index |-> k]] :
             k \in 0..(MaxTasks - 1)}

InitHandler ==
    /\ ledger \in {l \in HandlerLedgers : l.current_task_index <= Len(l.tasks)}
    /\ inflight \in {<<entry>> : entry \in HandlerInbox}
    /\ events = << >>
    /\ outputs = << >>
    /\ calls = [rejects |-> 0, implemented |-> None]
    /\ failure = "none"
    /\ last = NoHandler(ledger)

\* One call of the handler the message is for.
NextHandler ==
    \/ (last.by = "none" /\ PlanningExecutor_handle)
    \/ (last.by = "none" /\ DispatcherExecutor_handle)
    \/ (last.by = "none" /\ ImplementationExecutor_handle)
    \/ (last.by = "none" /\ VerificationExecutor_handle)

SpecHandler == InitHandler /\ [][NextHandler]_vars

\* The run under the workflow's scheduling: run_stream keeps delivering the
\* messages in flight, so a handler that has a message waiting is eventually
\* invoked.
SpecFair == Spec /\ WF_vars(Next)

\* ------------------------------------------------------------- claims

\* The latest handler invocation was a routing pass.
RouterPassed == last.by = "dispatcher"

\* `state` is a well-typed ledger whose cursor points at a task in `status`.
CursorAt(state, status) ==
    /\ Valid(state)
    /\ 0 <= state.current_task_index
    /\ state.current_task_index < Len(state.tasks)
    /\ state.tasks[state.current_task_index + 1].status = status

\* The messages of `signal` among the events of the run.
Emitted(signal) == {k \in DOMAIN events : events[k].msg.signal = signal}

RECURSIVE Concatenation(_, _)
\* The outputs of the first n tasks that are set and not empty, in task order,
\* with a blank line between two of them.
Concatenation(tasks, n) ==
    IF n = 0 THEN << >>
    ELSE LET before == Concatenation(tasks, n - 1)
             o == tasks[n].output
         IN  IF o = None \/ o = Some(<< >>) THEN before
             ELSE IF before = << >> THEN o[1]
             ELSE before \o <<"\n", "\n">> \o o[1]

\* What finalization is to produce for `tasks`.
Artifact(tasks) ==
    IF Concatenation(tasks, Len(tasks)) = << >> THEN <<"Workflow completed.">>
    ELSE Concatenation(tasks, Len(tasks))

\* `state` is a well-typed ledger with at least one task and the cursor at the end.
AtEnd(state) ==
    /\ Valid(state)
    /\ Len(state.tasks) > 0
    /\ state.current_task_index = Len(state.tasks)

\* C1: a routing pass over a ledger whose cursor points at a pending task sets
\* exactly that task's status to in_progress in the stored ledger, changes
\* nothing else of it, and sends exactly one message, a dispatch_task with the
\* cursor as task_index and that task's assignee.
C1_PendingDispatched ==
    (RouterPassed /\ CursorAt(last.before, "pending")) =>
        LET c == last.before.current_task_index
        IN  /\ failure = "none"
            /\ ledger = [last.before EXCEPT !.tasks[c + 1].status = "in_progress"]
            /\ last.sent = <<[signal |-> "dispatch_task", task_index |-> c,
                              assignee |-> last.before.tasks[c + 1].assignee]>>

C1_Witness ==
    /\ RouterPassed
    /\ CursorAt(last.before, "pending")
    /\ last.before.current_task_index = 1
    /\ last.before.tasks[1].status = "needs_review"
    /\ ledger.tasks[2].status = "in_progress"
    /\ Len(last.sent) = 1

\* C2 as stated: a routing pass over any ledger with the cursor at the end of
\* a non-empty task list sets final_artifact to the concatenation of the
\* non-empty outputs (or the generic message), yields it and sends only
\* workflow_complete.
C2_Original ==
    (RouterPassed /\ AtEnd(last.before)) =>
        /\ ledger.final_artifact = Some(Artifact(last.before.tasks))
        /\ last.out = <<Artifact(last.before.tasks)>>
        /\ last.sent = <<[signal |-> "workflow_complete"]>>

\* C2 amended: for a ledger with the cursor at the end of a non-empty task
\* list, a routing pass sets final_artifact to the concatenation (or the
\* generic message) when final_artifact is unset or empty, and leaves a
\* final_artifact that is already set as it is; either way it changes nothing
\* else, yields final_artifact as the one output and sends only
\* workflow_complete.
C2_Finalized ==
    (RouterPassed /\ AtEnd(last.before)) =>
        /\ failure = "none"
        /\ ledger = [last.before EXCEPT !.final_artifact =
                        IF @ = None \/ @ = Some(<< >>)
                        THEN Some(Artifact(last.before.tasks)) ELSE @]
        /\ last.out = <<ledger.final_artifact[1]>>
        /\ last.sent = <<[signal |-> "workflow_complete"]>>

C2_Witness ==
    /\ RouterPassed
    /\ AtEnd(last.before)
    /\ last.before.final_artifact = None
    /\ Len(ledger.tasks) = 2
    /\ ledger.tasks[1].output = Some(<<"r">>)
    /\ ledger.tasks[2].output = Some(<<"a">>)
    /\ ledger.final_artifact = Some(<<"r", "\n", "\n", "a">>)
    /\ last.out = <<(<<"r", "\n", "\n", "a">>)>>

\* C3: a routing pass over a ledger with no tasks sends exactly one message,
\* workflow_complete, yields exactly one output, which is not empty, and
\* leaves the stored ledger as it was.
C3_NoTasks ==
    (RouterPassed /\ last.before.tasks = << >>) =>
        /\ failure = "none"
        /\ last.sent = <<[signal |-> "workflow_complete"]>>
        /\ Len(last.out) = 1
        /\ last.out[1] # << >>
        /\ ledger = last.before

C3_Witness ==
    /\ RouterPassed
    /\ last.before.tasks = << >>
    /\ last.before.final_artifact = None
    /\ Len(last.sent) = 1
    /\ Len(outputs) = 1

\* C6: a routing pass over a ledger whose cursor points at a needs_review task
\* sends exactly one message, a request_verification with the cursor as
\* task_index, and leaves the stored ledger as it was.
C6_ReviewRequested ==
    (RouterPassed /\ CursorAt(last.before, "needs_review")) =>
        /\ failure = "none"
        /\ last.sent = <<[signal |-> "request_verification",
                          task_index |-> last.before.current_task_index]>>
        /\ ledger = last.before

C6_Witness ==
    /\ RouterPassed
    /\ CursorAt(last.before, "needs_review")
    /\ last.before.current_task_index = 1
    /\ Len(last.sent) = 1
    /\ inflight = <<[to |-> "verifier", msg |-> last.sent[1]]>>

\* The latest handler invocation was the verifier's, its agent answered with
\* `verdict`, and the task it was asked to review is the one at the cursor.
Judged(verdict) ==
    /\ last.by = "verifier"
    /\ last.returned # None
    /\ last.returned[1][1] = verdict
    /\ last.msg.task_index = last.before.current_task_index

\* C4: once the verifier has returned pass for the task at the cursor, that
\* task is completed with no feedback and one message is on its way to the
\* dispatcher; and the routing pass that finds the task at the cursor
\* completed leaves the cursor exactly one further.
C4_PassAdvances ==
    /\ Judged("pass") =>
        /\ failure = "none"
        /\ ledger.tasks[last.msg.task_index + 1].status = "completed"
        /\ ledger.tasks[last.msg.task_index + 1].feedback = None
        /\ Len(inflight) = 1
        /\ inflight[1].to = "dispatcher"
    /\ (RouterPassed /\ CursorAt(last.before, "completed")) =>
        ledger.current_task_index = last.before.current_task_index + 1

C4_Witness ==
    /\ RouterPassed
    /\ CursorAt(last.before, "completed")
    /\ last.before.current_task_index = 0
    /\ ledger.current_task_index = 1
    /\ Len(ledger.tasks) = 2

\* C5: once the verifier has returned fail with feedback F for the task at the
\* cursor, that task is pending, its feedback is F, or a message that is not
\* empty when F is empty, the cursor is where it was and one message is on its
\* way to the dispatcher; and the routing pass that finds the rejected task
\* pending at the cursor sends dispatch_task for the same index and assignee
\* and leaves the cursor where it was.
C5_FailRetries ==
    /\ Judged("fail") =>
        LET F == last.returned[1][2]
            task == ledger.tasks[last.msg.task_index + 1]
        IN  /\ failure = "none"
            /\ task.status = "pending"
            /\ task.feedback # None
            /\ task.feedback[1] # << >>
            /\ (F # None /\ F # Some(<< >>)) => task.feedback = F
            /\ ledger.current_task_index = last.before.current_task_index
            /\ Len(inflight) = 1
            /\ inflight[1].to = "dispatcher"
    /\ (/\ RouterPassed
        /\ CursorAt(last.before, "pending")
        /\ last.before.tasks[last.before.current_task_index + 1].feedback # None) =>
        LET c == last.before.current_task_index
        IN  /\ ledger.current_task_index = c
            /\ last.sent = <<[signal |-> "dispatch_task", task_index |-> c,
                              assignee |-> last.before.tasks[c + 1].assignee]>>

C5_Witness ==
    /\ RouterPassed
    /\ CursorAt(last.before, "pending")
    /\ last.before.current_task_index = 1
    /\ last.before.tasks[2].feedback = Some(<<"x">>)
    /\ last.before.tasks[2].assignee = "researcher"
    /\ inflight = <<[to |-> "implementation_researcher",
                     msg |-> [signal |-> "dispatch_task", task_index |-> 1,
                              assignee |-> "researcher"]]>>

\* C7: in a run planned as one task for coder that has produced its final
\* artifact after k rejections, exactly k + 1 dispatch_task messages were
\* sent, each for task index 0 and assignee coder, the cursor is past the end
\* and the artifact is the text the latest implementer call returned.
C7_SingleTaskRun ==
    (/\ Len(ledger.tasks) = 1
     /\ ledger.tasks[1].assignee = "coder"
     /\ ledger.final_artifact # None) =>
        /\ Cardinality(Emitted("dispatch_task")) = calls.rejects + 1
        /\ \A k \in Emitted("dispatch_task") :
              /\ events[k].msg.task_index = 0
              /\ events[k].msg.assignee = "coder"
        /\ ledger.current_task_index = 1
        /\ calls.implemented # None
        /\ ledger.final_artifact = calls.implemented

C7_Witness ==
    /\ Len(ledger.tasks) = 1
    /\ ledger.tasks[1].assignee = "coder"
    /\ ledger.final_artifact = Some(<<"r">>)
    /\ calls.rejects = 1
    /\ Cardinality(Emitted("dispatch_task")) = 2

\* C8: the cursor is never below 0 nor beyond the number of tasks, and no
\* handler leaves it lower than it found it.
C8_CursorInRange ==
    /\ 0 <= ledger.current_task_index
    /\ ledger.current_task_index <= Len(ledger.tasks)
    /\ last.before.current_task_index <= ledger.current_task_index

C8_Witness ==
    /\ Len(ledger.tasks) = 2
    /\ ledger.current_task_index = 2
    /\ last.before.current_task_index = 1

\* C9: every task that is in_progress is the task at the cursor (so at most
\* one is).
C9_OneInProgress ==
    \A k \in DOMAIN ledger.tasks :
        ledger.tasks[k].status = "in_progress" => k = ledger.current_task_index + 1

C9_Witness ==
    /\ Len(ledger.tasks) = 2
    /\ ledger.current_task_index = 1
    /\ ledger.tasks[2].status = "in_progress"

\* C10 as stated: a task whose feedback is set is pending, and a task that is
\* needs_review or completed has no feedback.
C10_Original ==
    \A k \in DOMAIN ledger.tasks :
        /\ ledger.tasks[k].feedback # None => ledger.tasks[k].status = "pending"
        /\ ledger.tasks[k].status \in {"needs_review", "completed"} =>
              ledger.tasks[k].feedback = None

\* C10 amended: a task whose feedback is set is pending, or in_progress while
\* its retry is being implemented, and a review was rejected before; a task
\* that is needs_review or completed has no feedback.
C10_FeedbackOnlyOnRetry ==
    \A k \in DOMAIN ledger.tasks :
        /\ ledger.tasks[k].feedback # None =>
              /\ ledger.tasks[k].status \in {"pending", "in_progress"}
              /\ calls.rejects > 0
        /\ ledger.tasks[k].status \in {"needs_review", "completed"} =>
              ledger.tasks[k].feedback = None

C10_Witness ==
    \E k \in DOMAIN ledger.tasks :
        /\ ledger.tasks[k].feedback = Some(<<"x">>)
        /\ ledger.tasks[k].status = "in_progress"

\* The run has come to rest: no message is in flight, or a handler has raised.
AtRest == inflight = << >> \/ failure # "none"

\* C11 as stated: a run that has come to rest has yielded exactly one output,
\* in a routing pass that also sent workflow_complete.
C11_Original ==
    AtRest =>
        /\ Len(outputs) = 1
        /\ Cardinality(Emitted("workflow_complete")) = 1

\* C11 amended: a run yields at most one output; there are as many outputs as
\* workflow_complete messages; an output is yielded only by a routing pass
\* that also sends workflow_complete, and nothing is in flight afterwards; a
\* run that has come to rest without an error has yielded exactly one output,
\* and a run in which a handler has raised has yielded none.
C11_OneOutput ==
    /\ Len(outputs) <= 1
    /\ Len(outputs) = Cardinality(Emitted("workflow_complete"))
    /\ last.out # << >> =>
          /\ RouterPassed
          /\ \E k \in DOMAIN last.sent : last.sent[k].signal = "workflow_complete"
    /\ outputs # << >> => (inflight = << >> /\ last.out = outputs)
    /\ (inflight = << >> /\ failure = "none") => Len(outputs) = 1
    /\ failure # "none" => outputs = << >>

C11_Witness ==
    /\ Len(outputs) = 1
    /\ last.out = outputs
    /\ Cardinality(Emitted("workflow_complete")) = 1
    /\ AtRest
    /\ Len(ledger.tasks) = 2
    /\ calls.rejects = 1

\* `message` is a dispatch_task naming `role` as the assignee.
Names(message, role) ==
    /\ message.signal = "dispatch_task"
    /\ "assignee" \in DOMAIN message
    /\ message.assignee = role

\* The latest handler invocation did nothing: it did not raise, called no
\* agent, left the stored ledger as it was, sent no message, yielded no output.
Ignored ==
    /\ failure = "none"
    /\ last.returned = None
    /\ ledger = last.before
    /\ last.sent = << >>
    /\ last.out = << >>
    /\ inflight = << >>
    /\ events = << >>

\* C12: an implementer handed a message that is not a dispatch_task naming its
\* own role, and the verifier handed a message that is not a
\* request_verification, do nothing; and the edges from the dispatcher deliver
\* a dispatch_task naming role R to the implementer of role R alone and a
\* request_verification to the verifier alone.
C12_Targeting ==
    /\ \A r \in Roles :
          (last.by = ImplementationId(r) /\ ~Names(last.msg, r)) => Ignored
    /\ (last.by = "verifier" /\ last.msg.signal # "request_verification") => Ignored
    /\ \A r \in Roles :
          (last.by # "none" /\ Names(last.msg, r)) =>
              Targets("dispatcher", last.msg) = <<"implementation_" \o r>>
    /\ (last.by # "none" /\ last.msg.signal = "request_verification") =>
          Targets("dispatcher", last.msg) = <<"verifier">>

C12_Witness ==
    /\ last.by = "implementation_coder"
    /\ Names(last.msg, "researcher")
    /\ last.msg.task_index = 0
    /\ Len(last.before.tasks) = 2
    /\ Valid(last.before)
    /\ last.before.tasks[1].assignee = "researcher"
    /\ Ignored

\* C13 as stated: whenever a routing pass of a run sends request_verification,
\* the output of the task it names is set and not empty.
C13_NoEmptyReview ==
    RouterPassed =>
        \A k \in DOMAIN last.sent :
            last.sent[k].signal = "request_verification" =>
                LET o == ledger.tasks[last.sent[k].task_index + 1].output
                IN  o # None /\ o # Some(<< >>)

\* The run has ended with its artifact: workflow_complete has been sent,
\* final_artifact is set and every task is completed.
Done ==
    /\ Emitted("workflow_complete") # {}
    /\ ledger.final_artifact # None
    /\ \A k \in DOMAIN ledger.tasks : ledger.tasks[k].status = "completed"

\* A handler has raised while no plan existed or while a task of the plan was
\* still to be passed by the verifier.
Aborted ==
    /\ failure # "none"
    /\ \/ Emitted("plan_created") = {}
       \/ \E k \in DOMAIN ledger.tasks : ledger.tasks[k].status # "completed"

\* The routing pass that has just run sent dispatch_task for index k and
\* nothing else.
DispatchedAt(k) ==
    /\ RouterPassed
    /\ Len(last.sent) = 1
    /\ last.sent[1].signal = "dispatch_task"
    /\ last.sent[1].task_index = k

\* C14: unless a handler raises, which happens only while no plan exists or
\* some task is still to be passed by the verifier, the run eventually sends
\* workflow_complete with final_artifact set and every task completed; and
\* whenever the verifier has returned a verdict other than pass for a task,
\* nothing has been yielded, no workflow_complete has been sent, and the next
\* step of the run is the routing pass that sends dispatch_task for the same
\* index.
C14_Completes ==
    /\ <>(Done \/ Aborted)
    /\ [](failure # "none" => Aborted)
    /\ [](Judged("fail") => (outputs = << >> /\ Emitted("workflow_complete") = {}))
    /\ [][Judged("fail") => DispatchedAt(last.msg.task_index)']_vars

C14_Witness ==
    /\ Done
    /\ Len(ledger.tasks) = 2
    /\ calls.rejects = 2
    /\ Cardinality(Emitted("dispatch_task")) = 4

\* The index of the first task at or after the cursor of `state` that is not
\* completed, or the number of tasks when there is none.
RestingAt(state) ==
    LET c == state.current_task_index
        n == Len(state.tasks)
    IN  CHOOSE r \in c..n :
            /\ r = n \/ state.tasks[r + 1].status # "completed"
            /\ \A j \in c..(r - 1) : state.tasks[j + 1].status = "completed"

\* C15: a routing pass over a ledger whose cursor points at a completed task
\* leaves the cursor on the first task at or after it that is not completed,
\* or at the number of tasks, and does there what a pass does for that
\* position: finalizes at the end, dispatches a pending or blocked task,
\* requests verification of a needs_review task, sends nothing for an
\* in_progress task.
C15_Cascade ==
    (RouterPassed /\ CursorAt(last.before, "completed")) =>
        LET r == RestingAt(last.before)
            n == Len(last.before.tasks)
            s == last.before.tasks[r + 1].status
        IN  /\ failure = "none"
            /\ ledger.current_task_index = r
            /\ r = n =>
                  /\ last.sent = <<[signal |-> "workflow_complete"]>>
                  /\ Len(last.out) = 1
                  /\ ledger.final_artifact = Some(last.out[1])
                  /\ ledger.tasks = last.before.tasks
            /\ (r < n /\ s \in {"pending", "blocked"}) =>
                  /\ last.sent = <<[signal |-> "dispatch_task", task_index |-> r,
                                    assignee |-> last.before.tasks[r + 1].assignee]>>
                  /\ ledger.tasks = [last.before.tasks EXCEPT ![r + 1].status = "in_progress"]
                  /\ last.out = << >>
            /\ (r < n /\ s = "needs_review") =>
                  /\ last.sent = <<[signal |-> "request_verification", task_index |-> r]>>
                  /\ ledger.tasks = last.before.tasks
                  /\ last.out = << >>
            /\ (r < n /\ s = "in_progress") =>
                  /\ last.sent = << >>
                  /\ ledger.tasks = last.before.tasks
                  /\ last.out = << >>

C15_Witness ==
    /\ RouterPassed
    /\ CursorAt(last.before, "completed")
    /\ last.before.current_task_index = 0
    /\ Len(last.before.tasks) = 2
    /\ last.before.tasks[2].status = "completed"
    /\ last.before.final_artifact = None
    /\ ledger.current_task_index = 2
    /\ ledger.final_artifact # None
    /\ Len(outputs) = 1

\* C16: a routing pass, on either kind of incoming message, over a ledger
\* whose cursor points at an in_progress task sends no message, yields no
\* output and leaves the stored ledger as it was; and a routing pass over a
\* well-typed ledger that sends nothing, yields nothing, changes nothing in
\* the ledger and does not raise has found an in_progress task at the cursor.
C16_InProgressWaits ==
    /\ (RouterPassed /\ CursorAt(last.before, "in_progress")) =>
          /\ failure = "none"
          /\ last.sent = << >>
          /\ last.out = << >>
          /\ ledger = last.before
          /\ inflight = << >>
    /\ (/\ RouterPassed
        /\ Valid(last.before)
        /\ failure = "none"
        /\ last.sent = << >>
        /\ last.out = << >>
        /\ ledger = last.before) =>
          CursorAt(last.before, "in_progress")

C16_Witness ==
    /\ RouterPassed
    /\ CursorAt(last.before, "in_progress")
    /\ last.before.current_task_index = 1
    /\ last.msg = [signal |-> "advance_task", task_index |-> 0]
    /\ ledger = last.before
    /\ inflight = << >>
    /\ events = << >>

\* The cursor of `state` points at a task whose status is none of the five of
\* TaskStatus.
CursorAtUnknown(state) ==
    /\ 0 <= state.current_task_index
    /\ state.current_task_index < Len(state.tasks)
    /\ state.tasks[state.current_task_index + 1].status \notin
          {"pending", "blocked", "in_progress", "needs_review", "completed"}

\* C17 as stated: a routing pass over a ledger whose cursor points at a task
\* with a status that is none of the five yields one output, a diagnostic that
\* names the status, sends no message and leaves the stored ledger as it was.
C17_UnknownReported ==
    (RouterPassed /\ CursorAtUnknown(last.before)) =>
        /\ Len(last.out) = 1
        /\ \E k \in DOMAIN last.out[1] :
              last.out[1][k] =
                  last.before.tasks[last.before.current_task_index + 1].status
        /\ last.sent = << >>
        /\ ledger = last.before

\* The task_index of `message` is no index of a task of `state`.
OutOfRange(message, state) ==
    message.task_index < 0 \/ message.task_index >= Len(state.tasks)

\* The latest handler invocation raised: it called no agent, left the stored
\* ledger as it was and sent nothing.
Fatal ==
    /\ failure # "none"
    /\ last.returned = None
    /\ ledger = last.before
    /\ last.sent = << >>
    /\ inflight = << >>
    /\ events = << >>

\* C18: an implementer handed a dispatch_task naming its role, and the
\* verifier handed a request_verification, with a task_index that is below 0
\* or not below the number of tasks, and the verifier handed a
\* request_verification for a task whose output is unset or empty, raise (on a
\* well-typed ledger IndexError, and ValueError for the missing output)
\* without calling the agent, changing the stored ledger or sending
\* advance_task.
C18_IndexNotClamped ==
    /\ \A r \in Roles :
          (/\ last.by = ImplementationId(r)
           /\ Names(last.msg, r)
           /\ OutOfRange(last.msg, last.before)) =>
              /\ Fatal
              /\ Valid(last.before) => failure = "IndexError"
    /\ (/\ last.by = "verifier"
        /\ last.msg.signal = "request_verification"
        /\ OutOfRange(last.msg, last.before)) =>
          /\ Fatal
          /\ Valid(last.before) => failure = "IndexError"
    /\ (/\ last.by = "verifier"
        /\ last.msg.signal = "request_verification"
        /\ ~OutOfRange(last.msg, last.before)
        /\ last.before.tasks[last.msg.task_index + 1].output \in {None, Some(<< >>)}) =>
          /\ Fatal
          /\ Valid(last.before) => failure = "ValueError"

C18_Witness ==
    /\ last.by = "implementation_researcher"
    /\ Names(last.msg, "researcher")
    /\ Len(last.before.tasks) = 2
    /\ last.msg.task_index = 2
    /\ Valid(last.before)
    /\ Fatal
    /\ failure = "IndexError"

\* The latest handler invocation was the planner's, and the task list read
\* from its agent's response is empty.
PlannedEmpty ==
    /\ last.by = "planner"
    /\ last.returned # None
    /\ last.returned[1].ok
    /\ last.returned[1].tasks = << >>

\* C19: once the planner's agent has returned an empty task list, the handler
\* has raised ValueError, no plan_created and no dispatch_task has been sent,
\* the stored ledger is as it was, with no tasks and the cursor at 0, nothing
\* has been yielded and no message is in flight, so that no handler runs
\* again.
C19_EmptyPlanFatal ==
    PlannedEmpty =>
        /\ failure = "ValueError"
        /\ Emitted("plan_created") = {}
        /\ Emitted("dispatch_task") = {}
        /\ ledger = last.before
        /\ ledger.tasks = << >>
        /\ ledger.current_task_index = 0
        /\ outputs = << >>
        /\ inflight = << >>

C19_Witness ==
    /\ PlannedEmpty
    /\ failure = "ValueError"
    /\ last.msg = <<" ", "q", " ">>
    /\ events = << >>
    /\ inflight = << >>

\* `response` carries no verdict: it is no VerificationResult, its dict or
\* its JSON text has no verdict field, and its text, when it is no JSON,
\* contains neither pass nor fail.
NoVerdict(response) ==
    IF response.value # None
    THEN /\ response.value[1].type # "VerificationResult"
         /\ "verdict" \notin DOMAIN response.value[1].data
    ELSE IF response.json # None
    THEN "verdict" \notin DOMAIN response.json[1]
    ELSE /\ ~Contains(Lower(_response_to_text(response)), <<"p", "a", "s", "s">>)
         /\ ~Contains(Lower(_response_to_text(response)), <<"f", "a", "i", "l">>)

\* C20 as stated: once the verifier's agent has returned a response that
\* carries no verdict, the handler has raised, the task it was asked to review
\* has the status and the feedback it had, and no advance_task has been sent.
C20_NoDefaultVerdict ==
    (/\ last.by = "verifier"
     /\ last.returned # None
     /\ NoVerdict(last.returned[1][3])) =>
        LET k == last.msg.task_index + 1
        IN  /\ failure # "none"
            /\ ledger.tasks[k].status = last.before.tasks[k].status
            /\ ledger.tasks[k].feedback = last.before.tasks[k].feedback
            /\ last.sent = << >>

C22_BlockedAsPending ==
    /\ \A s \in {"blocked", "pending"} :
          (RouterPassed /\ CursorAt(last.before, s)) =>
              LET c == last.before.current_task_index
              IN  /\ failure = "none"
                  /\ ledger = [last.before EXCEPT !.tasks[c + 1].status = "in_progress"]
                  /\ last.sent = <<[signal |-> "dispatch_task", task_index |-> c,
                                    assignee |-> last.before.tasks[c + 1].assignee]>>
                  /\ inflight = <<[to |-> "implementation_" \o last.before.tasks[c + 1].assignee,
                                   msg |-> last.sent[1]]>>
    /\ \A k \in DOMAIN ledger.tasks :
          ledger.tasks[k].status = "blocked" =>
              /\ k \in DOMAIN last.before.tasks
              /\ last.before.tasks[k].status = "blocked"
              /\ ~(last.by = "planner" /\ failure = "none")

C22_Witness ==
    /\ RouterPassed
    /\ CursorAt(last.before, "blocked")
    /\ last.before.current_task_index = 1
    /\ last.before.tasks[2].assignee = "researcher"
    /\ ledger.tasks[2].status = "in_progress"
    /\ inflight = <<[to |-> "implementation_researcher",
                     msg |-> [signal |-> "dispatch_task", task_index |-> 1,
                              assignee |-> "researcher"]]>>

\* C23: a call of the dispatcher's, an implementer's or the verifier's handler
\* leaves original_request, the number of tasks and each task's title,
\* description and assignee as they were; and a task that is in_progress
\* after a call of any handler, and was not before it, was set so by the
\* dispatcher's.
C23_PlanImmutable ==
    /\ last.by \notin {"none", "planner"} =>
          /\ ledger.original_request = last.before.original_request
          /\ Len(ledger.tasks) = Len(last.before.tasks)
          /\ \A k \in DOMAIN ledger.tasks :
                /\ ledger.tasks[k].title = last.before.tasks[k].title
                /\ ledger.tasks[k].description = last.before.tasks[k].description
                /\ ledger.tasks[k].assignee = last.before.tasks[k].assignee
    /\ \A k \in DOMAIN ledger.tasks :
          (/\ ledger.tasks[k].status = "in_progress"
           /\ (k \in DOMAIN last.before.tasks => last.before.tasks[k].status # "in_progress")) =>
              RouterPassed

C23_Witness ==
    /\ last.by = "verifier"
    /\ failure = "none"
    /\ Len(ledger.tasks) = 2
    /\ last.msg.task_index = 1
    /\ last.before.tasks[2].status = "needs_review"
    /\ ledger.tasks[2].status = "pending"
    /\ ledger.tasks[2].feedback # last.before.tasks[2].feedback
    /\ ledger.tasks[2].assignee = "researcher"

\* C24: in every state of a run, every task before the cursor is completed
\* and has an output that is set and not empty, and every task after the
\* cursor is pending with no output and no feedback; a routing pass that
\* sends dispatch_task for an index has every task before that index
\* completed; and a final_artifact that is set is the concatenation of the
\* outputs of all tasks, none of which is unset or empty.
C24_OrderedProgress ==
    /\ \A k \in DOMAIN ledger.tasks :
          /\ k - 1 < ledger.current_task_index =>
                /\ ledger.tasks[k].status = "completed"
                /\ ledger.tasks[k].output \notin {None, Some(<< >>)}
          /\ k - 1 > ledger.current_task_index =>
                /\ ledger.tasks[k].status = "pending"
                /\ ledger.tasks[k].output = None
                /\ ledger.tasks[k].feedback = None
    /\ \A e \in Emitted("dispatch_task") :
          e = Len(events) =>
              \A k \in 1..events[e].msg.task_index :
                  ledger.tasks[k].status = "completed"
    /\ ledger.final_artifact # None =>
          /\ \A k \in DOMAIN ledger.tasks :
                ledger.tasks[k].output \notin {None, Some(<< >>)}
          /\ ledger.final_artifact = Some(Concatenation(ledger.tasks, Len(ledger.tasks)))

C24_Witness ==
    /\ Len(ledger.tasks) = 2
    /\ ledger.current_task_index = 1
    /\ ledger.tasks[1].status = "completed"
    /\ ledger.tasks[1].output = Some(<<"a">>)
    /\ ledger.tasks[2].status = "in_progress"
    /\ ledger.tasks[2].feedback = Some(<<"x">>)
    /\ Len(inflight) = 1
    /\ inflight[1].msg.signal = "dispatch_task"

\* C25: in every state of a run at most one message is in flight; a
\* dispatch_task in flight names the cursor as task_index and the assignee of
\* the task there, which is in_progress, and is on its way to that assignee's
\* implementer; a request_verification in flight names the cursor, the task
\* there is needs_review, and it is on its way to the verifier.
C25_OneMessage ==
    /\ Len(inflight) <= 1
    /\ \A e \in DOMAIN inflight :
          LET m == inflight[e].msg
          IN  /\ (inflight[e].to # "planner" /\ m.signal = "dispatch_task") =>
                    /\ m.task_index = ledger.current_task_index
                    /\ m.task_index < Len(ledger.tasks)
                    /\ m.assignee = ledger.tasks[m.task_index + 1].assignee
                    /\ ledger.tasks[m.task_index + 1].status = "in_progress"
                    /\ inflight[e].to = "implementation_" \o m.assignee
              /\ (inflight[e].to # "planner" /\ m.signal = "request_verification") =>
                    /\ m.task_index = ledger.current_task_index
                    /\ m.task_index < Len(ledger.tasks)
                    /\ ledger.tasks[m.task_index + 1].status = "needs_review"
                    /\ inflight[e].to = "verifier"

C25_Witness ==
    /\ inflight = <<[to |-> "verifier",
                     msg |-> [signal |-> "request_verification", task_index |-> 1]]>>
    /\ ledger.current_task_index = 1
    /\ ledger.tasks[2].status = "needs_review"
    /\ calls.rejects = 1

\* What one more routing pass over the stored ledger, on `message`, would do.
Restored(message) == Dispatcher_run(message, Context(ledger))

\* C26: in a run, no routing pass has found the task at the cursor
\* in_progress, and whenever no message is in flight, workflow_complete has
\* been sent or a handler has raised; and a routing pass over a ledger of the
\* run whose cursor points at an in_progress task, on either kind of message,
\* would send nothing, yield nothing and store nothing.
C26_NoSilentStall ==
    /\ RouterPassed => ~CursorAt(last.before, "in_progress")
    /\ RouterPassed => ~CursorAt(ledger, "in_progress") \/ last.sent # << >>
    /\ inflight = << >> => (Emitted("workflow_complete") # {} \/ failure # "none")
    /\ CursorAt(ledger, "in_progress") =>
          \A m \in AnyMessages :
              /\ Restored(m).raised = "none"
              /\ Restored(m).ctx.sent = << >>
              /\ Restored(m).ctx.out = << >>
              /\ Restored(m).ctx.shared = ledger

C26_Witness ==
    /\ CursorAt(ledger, "in_progress")
    /\ ledger.current_task_index = 1
    /\ inflight = <<[to |-> "implementation_coder",
                     msg |-> [signal |-> "dispatch_task", task_index |-> 1,
                              assignee |-> "coder"]]>>
    /\ Restored([signal |-> "advance_task", task_index |-> 0]).ctx.sent = << >>
    /\ Emitted("workflow_complete") = {}

====
